---- MODULE Spec2Model ----
(***************************************************************************)
(* A model of easy-logging: SimpleLogger (src/src/simple-logging.ts) and   *)
(* ContextLogger (src/src/context-logging.ts).                             *)
(*                                                                         *)
(* Strings are sequences of tokens.  A token is one character, except      *)
(* that the eight characters of "<LOGEND>" form one token: the text has    *)
(* no proper border (its first character "<" occurs nowhere else in it),   *)
(* so every occurrence of it in a buffer is either a separator written by  *)
(* debug() or lies wholly inside one payload string, and String.split      *)
(* cannot match it across a boundary.                                      *)
(***************************************************************************)
EXTENDS Integers, Sequences, FiniteSets, TLC

(***************************************************************************)
(* Bounds of the model.                                                    *)
(***************************************************************************)
\* the number of calls made on the logger in one behaviour
MaxCalls == 3
\* the clock takes the values 0..MaxTime
MaxTime == 1

\* PassThrough's default highWaterMark (16 KiB in Node), scaled to the
\* model's token count: one serialized record is 7 or 8 tokens long.
HighWaterMark == 8

\* the execution identifiers the context manager returns
ExecutionIds == {"A", "B"}

\* ContextLogger.LOG_SEP
LOG_SEP == "<LOGEND>"
DQ == "\""
BSLASH == "\\"

\* event names (payload strings) the callers pass to debug()
Names == {<<"a">>, <<DQ>>, <<LOG_SEP>>}

\* what the configured attachment producer (LoggerSetup.logAttachments)
\* returns: it reads state that changes as time passes
AttachmentValues == <<"v0", "v1", "v2", "v3", "v4", "v5", "v6", "v7", "v8", "v9">>
logAttachments(time) == AttachmentValues[time + 1]

\* pino's levels in ascending order; "silent" is above every record's level
LogLevels == <<"debug", "info", "warn", "error", "silent">>

\* the position of a level in debug < info < warn < error < silent
LevelRank(l) == CHOOSE i \in DOMAIN LogLevels : LogLevels[i] = l

(***************************************************************************)
(* Formatting of numbers and timestamps as text, and back.                 *)
(***************************************************************************)
NumToks == <<"0", "1", "2", "3", "4", "5", "6", "7", "8", "9">>
TimeToks == <<"t0", "t1", "t2", "t3", "t4", "t5", "t6", "t7", "t8", "t9">>

NumTok(n) == NumToks[n + 1]
TokNum(s) == CHOOSE n \in 0..9 : NumToks[n + 1] = s
IsNumTok(s) == \E n \in 0..9 : NumToks[n + 1] = s
TimeTok(t) == TimeToks[t + 1]
TokTime(s) == CHOOSE t \in 0..9 : TimeToks[t + 1] = s
IsTimeTok(s) == \E t \in 0..9 : TimeToks[t + 1] = s

(***************************************************************************)
(* JSON.stringify of a Log { time, event: { name, uid } }.                 *)
(***************************************************************************)
RECURSIVE Escape(_)
Escape(s) ==
  IF s = <<>> THEN <<>>
  ELSE (IF Head(s) = DQ \/ Head(s) = BSLASH
          THEN <<BSLASH, Head(s)>>
          ELSE <<Head(s)>>) \o Escape(Tail(s))

JSONstringify(log) ==
  <<"{", TimeTok(log.time), DQ>> \o Escape(log.event.name)
     \o <<DQ, NumTok(log.event.uid), "}">>

(***************************************************************************)
(* String.prototype.split on a separator token.                            *)
(***************************************************************************)
RECURSIVE SplitFrom(_, _, _)
SplitFrom(s, sep, cur) ==
  IF s = <<>> THEN <<cur>>
  ELSE IF Head(s) = sep
    THEN <<cur>> \o SplitFrom(Tail(s), sep, <<>>)
    ELSE SplitFrom(Tail(s), sep, Append(cur, Head(s)))

split(s, sep) == SplitFrom(s, sep, <<>>)

(***************************************************************************)
(* JSON.parse of one segment: the parsed Log, or a SyntaxError.            *)
(***************************************************************************)
NullLog == [time |-> 0, event |-> [name |-> <<>>, uid |-> 0]]
SyntaxError == [ok |-> FALSE, value |-> NullLog]

\* the string literal starting after its opening quote at position i
RECURSIVE ParseString(_, _, _)
ParseString(s, i, acc) ==
  IF i > Len(s) THEN [ok |-> FALSE, value |-> <<>>, next |-> i]
  ELSE IF s[i] = DQ THEN [ok |-> TRUE, value |-> acc, next |-> i + 1]
  ELSE IF s[i] = BSLASH
    THEN IF i + 1 <= Len(s) /\ (s[i + 1] = DQ \/ s[i + 1] = BSLASH)
           THEN ParseString(s, i + 2, Append(acc, s[i + 1]))
           ELSE [ok |-> FALSE, value |-> <<>>, next |-> i]
    ELSE ParseString(s, i + 1, Append(acc, s[i]))

JSONparse(seg) ==
  IF Len(seg) < 6 \/ seg[1] # "{" \/ ~IsTimeTok(seg[2]) \/ seg[3] # DQ
    THEN SyntaxError
    ELSE LET str == ParseString(seg, 4, <<>>) IN
      IF str.ok /\ Len(seg) = str.next + 1
          /\ IsNumTok(seg[str.next]) /\ seg[str.next + 1] = "}"
        THEN [ok |-> TRUE,
              value |-> [time |-> TokTime(seg[2]),
                         event |-> [name |-> str.value,
                                    uid |-> TokNum(seg[str.next])]]]
        ELSE SyntaxError

(***************************************************************************)
(* The PassThrough stream behind one buffer.  rbuf is the readable side    *)
(* (readableLength = Len(rbuf)); once a chunk brings the readable side to  *)
(* the high-water mark the transform holds its write callback (blocked)    *)
(* and later writes queue on the writable side (wbuf), until the readable  *)
(* side asks for data again.                                               *)
(***************************************************************************)
NewPassThrough == [rbuf |-> <<>>, wbuf |-> <<>>, blocked |-> FALSE]

\* Transform._write of one chunk: push it, and hold the callback at the mark
TransformWrite(st, chunk) ==
  [st EXCEPT !.rbuf = @ \o chunk,
             !.blocked = Len(st.rbuf \o chunk) >= HighWaterMark]

\* Writable.write
StreamWrite(st, chunk) ==
  IF st.blocked THEN [st EXCEPT !.wbuf = Append(@, chunk)]
  ELSE TransformWrite(st, chunk)

\* clearBuffer: queued chunks are transformed while the callback comes back
RECURSIVE ClearBuffer(_)
ClearBuffer(st) ==
  IF st.blocked \/ st.wbuf = <<>> THEN st
  ELSE ClearBuffer(TransformWrite([st EXCEPT !.wbuf = Tail(@)], Head(st.wbuf)))

\* Transform._read: release the held callback
TransformRead(st) ==
  IF st.blocked THEN ClearBuffer([st EXCEPT !.blocked = FALSE]) ELSE st

\* Readable.read() without a size: _read() first, then the whole readable side
StreamRead(st) ==
  LET s1 == TransformRead(st)
  IN [data |-> s1.rbuf, stream |-> [s1 EXCEPT !.rbuf = <<>>]]

(***************************************************************************)
(* SimpleLogger                                                            *)
(***************************************************************************)
\* LoggerSetup: the options a caller may pass, each one possibly omitted
LoggerSetups ==
  [level : {"debug", "info", "warn", "error", "undefined"},
   isEnabled : {"true", "false", "undefined"}]

\* faulty variant: an omitted level defaults to debug
setupDefaultsDebug(params) ==
  [level |-> IF params.isEnabled = "false" THEN "silent"
             ELSE IF params.level = "undefined" THEN "debug"
             ELSE params.level]

\* SimpleLogger.setup: the pino instance; pino turns enabled: false into
\* the level "silent"
setup(params) ==
  [level |-> IF params.isEnabled = "false" THEN "silent"
             ELSE IF params.level = "undefined" THEN "info"
             ELSE params.level]

\* pino's write of one object at a level: the level gate, then the mixin
\* (the attachment producer is invoked here, when the record is written)
pinoLog(lg, level, obj, att) ==
  IF LevelRank(level) >= LevelRank(lg.level)
    THEN <<[level |-> level, att |-> att, time |-> obj.time,
            event |-> obj.event]>>
    ELSE <<>>

\* the error values passed to error(): toJSON is absent, returns an object,
\* returns a string (a non-mapping), or throws
Errors ==
  [name : {"Error"}, message : {"Oops"},
   toJSON : {"absent", "object", "string", "throws"}]

\* what error.toJSON() returns, spread into an object literal
IndexKeys == <<"0", "1">>
ToJSONSpread(error) ==
  IF error.toJSON = "object"
    THEN [k \in {"prop", "message"} |->
            IF k = "prop" THEN "Custom" ELSE "Overridden"]
    ELSE [k \in {IndexKeys[1], IndexKeys[2]} |->
            IF k = IndexKeys[1] THEN "h" ELSE "i"]

\* { ...a, ...b }
ObjectSpread(a, b) ==
  [k \in DOMAIN a \cup DOMAIN b |-> IF k \in DOMAIN b THEN b[k] ELSE a[k]]

BaseFields(error) ==
  [k \in {"type", "message"} |->
     IF k = "type" THEN error.name ELSE error.message]

\* faulty variant: the base fields are spread last and win over toJSON's
serializeErrorBaseWins(error) ==
  IF error.toJSON = "absent"
    THEN [threw |-> FALSE, value |-> BaseFields(error)]
  ELSE IF error.toJSON = "throws"
    THEN [threw |-> TRUE, value |-> BaseFields(error)]
  ELSE [threw |-> FALSE,
        value |-> ObjectSpread(ToJSONSpread(error), BaseFields(error))]

\* SimpleLogger.serializeError: the serialized error, or the exception that
\* toJSON raised
serializeError(error) ==
  IF error.toJSON = "absent"
    THEN [threw |-> FALSE, value |-> BaseFields(error)]
  ELSE IF error.toJSON = "throws"
    THEN [threw |-> TRUE, value |-> BaseFields(error)]
  ELSE [threw |-> FALSE,
        value |-> ObjectSpread(BaseFields(error), ToJSONSpread(error))]

\* SimpleLogger.formatLog
formatLog(info, time) == [time |-> time, event |-> info]

\* SimpleLogger.formatErrorLog, given the serialized error
formatErrorLog(info, serialized, time) ==
  [time |-> time,
   event |-> [name |-> info.name, uid |-> info.uid, error |-> serialized]]

(***************************************************************************)
(* ContextLogger                                                           *)
(***************************************************************************)
\* faulty variant: a new stream is set whether or not one exists
createLogStreamReplaces(streams, id) ==
  [k \in DOMAIN streams \cup {id} |->
     IF k = id THEN NewPassThrough ELSE streams[k]]

createLogStream(streams, id) ==
  IF id \in DOMAIN streams THEN streams
  ELSE [k \in DOMAIN streams \cup {id} |->
          IF k = id THEN NewPassThrough ELSE streams[k]]

\* faulty variants: the stream is not removed; every stream is removed
deleteLogStreamKeeps(streams, id) == streams

deleteLogStreamAll(streams, id) == [k \in {} |-> NewPassThrough]

\* faulty variant: the stream is emptied and stays in the map
deleteLogStreamEmpties(streams, id) ==
  [k \in DOMAIN streams |-> IF k = id THEN NewPassThrough ELSE streams[k]]

deleteLogStream(streams, id) ==
  [k \in DOMAIN streams \ {id} |-> streams[k]]

hasStreamedLogs(streams, id) ==
  id \in DOMAIN streams /\ Len(streams[id].rbuf) > 0

\* flushLogStream: the text read, and the streams after the read
flushLogStream(streams, id) ==
  IF id \in DOMAIN streams
    THEN LET r == StreamRead(streams[id])
         IN [data |-> r.data, streams |-> [streams EXCEPT ![id] = r.stream]]
    ELSE [data |-> <<>>, streams |-> streams]

\* the buffered branch of ContextLogger.debug
streamDebug(streams, id, log) ==
  LET created == createLogStream(streams, id)
      sep == IF hasStreamedLogs(created, id)
               THEN [created EXCEPT ![id] = StreamWrite(@, <<LOG_SEP>>)]
               ELSE created
  IN [sep EXCEPT ![id] = StreamWrite(@, JSONstringify(log))]

\* faulty variant: the replayed record carries the attachments as of its
\* debug call
RECURSIVE replayAttachmentsAtDebug(_, _, _)
replayAttachmentsAtDebug(segs, lg, att) ==
  IF segs = <<>> THEN [emit |-> <<>>, threw |-> FALSE]
  ELSE LET p == JSONparse(Head(segs)) IN
    IF ~p.ok THEN [emit |-> <<>>, threw |-> TRUE]
    ELSE LET rest == replayAttachmentsAtDebug(Tail(segs), lg, att)
         IN [emit |-> pinoLog(lg, "info", p.value,
                              logAttachments(p.value.time)) \o rest.emit,
             threw |-> rest.threw]

\* the forEach of ContextLogger.error: each segment is parsed and logged at
\* info; a SyntaxError ends the loop and propagates
RECURSIVE replay(_, _, _)
replay(segs, lg, att) ==
  IF segs = <<>> THEN [emit |-> <<>>, threw |-> FALSE]
  ELSE LET p == JSONparse(Head(segs)) IN
    IF ~p.ok THEN [emit |-> <<>>, threw |-> TRUE]
    ELSE LET rest == replay(Tail(segs), lg, att)
         IN [emit |-> pinoLog(lg, "info", p.value, att) \o rest.emit,
             threw |-> rest.threw]

\* faulty variant: the error call deletes the stream whether or not it
\* has anything to replay
contextErrorAlwaysDeletes(streams, lg, els, id, info, error, time, att) ==
  LET ser == serializeError(error) IN
  IF ser.threw
    THEN [emit |-> <<>>, streams |-> streams, threw |-> TRUE]
  ELSE LET rec == pinoLog(lg, "error", formatErrorLog(info, ser.value, time), att)
       IN IF els /\ hasStreamedLogs(streams, id)
            THEN LET fl == flushLogStream(streams, id)
                     rp == replay(split(fl.data, LOG_SEP), lg, att)
                 IN [emit |-> rec \o rp.emit,
                     streams |-> IF rp.threw THEN fl.streams
                                 ELSE deleteLogStream(fl.streams, id),
                     threw |-> rp.threw]
            ELSE [emit |-> rec, streams |-> deleteLogStream(streams, id),
                  threw |-> FALSE]

\* ContextLogger.error: what reaches the sink, the streams afterwards, and
\* whether the call raised
contextError(streams, lg, els, id, info, error, time, att) ==
  LET ser == serializeError(error) IN
  IF ser.threw
    THEN [emit |-> <<>>, streams |-> streams, threw |-> TRUE]
  ELSE LET rec == pinoLog(lg, "error", formatErrorLog(info, ser.value, time), att)
       IN IF els /\ hasStreamedLogs(streams, id)
            THEN LET fl == flushLogStream(streams, id)
                     rp == replay(split(fl.data, LOG_SEP), lg, att)
                 IN [emit |-> rec \o rp.emit,
                     streams |-> IF rp.threw THEN fl.streams
                                 ELSE deleteLogStream(fl.streams, id),
                     threw |-> rp.threw]
            ELSE [emit |-> rec, streams |-> streams, threw |-> FALSE]

\* faulty variant: debug buffers whatever enableLogStreams says
contextDebugAlwaysStreams(streams, lg, els, id, info, time, att) ==
  [emit |-> <<>>,
   streams |-> streamDebug(streams, id, formatLog(info, time))]

\* ContextLogger.debug
contextDebug(streams, lg, els, id, info, time, att) ==
  IF ~els
    THEN [emit |-> pinoLog(lg, "debug", formatLog(info, time), att),
          streams |-> streams]
    ELSE [emit |-> <<>>,
          streams |-> streamDebug(streams, id, formatLog(info, time))]

(***************************************************************************)
(* The state: one ContextLogger and its environment.                       *)
(***************************************************************************)
VARIABLES
  logger,            \* the pino instance built by setup: its level
  enableLogStreams,  \* the constructor's third parameter
  logStreams,        \* Map<string, PassThrough>: execution id -> stream
  now,               \* the clock behind datetime.nowUTC()
  calls,             \* the number of calls made so far (the next uid - 1)
  lastOp,            \* the last call: operation, identifier, inputs, outcome
  lastEmit,          \* the records the last call wrote to the sink, in order
  debugCalls,        \* history: per identifier, the Logs of the debug calls
                     \* made since the last error or deleteLogStream under it
  issued,            \* history: every Log a debug call formatted, with its id
  discarded,         \* history: the uids of the debug calls that were
                     \* followed by deleteLogStream with no error in between
  sunk,              \* history: the uids of the records the sink received
  pending            \* history: per identifier, the Logs written to its
                     \* stream since the stream was last read or deleted

vars == <<logger, enableLogStreams, logStreams, now, calls,
          lastOp, lastEmit, debugCalls, issued, discarded, sunk, pending>>

NoError == [name |-> "Error", message |-> "Oops", toJSON |-> "absent"]

Op(op, id, info, error, threw) ==
  [op |-> op, id |-> id, info |-> info, error |-> error, threw |-> threw]

Init ==
  /\ \E params \in LoggerSetups : logger = setup(params)
  /\ enableLogStreams \in BOOLEAN
  /\ logStreams = [k \in {} |-> NewPassThrough]
  /\ now = 0
  /\ calls = 0
  /\ lastOp = [op |-> "new", id |-> "A", info |-> [name |-> <<>>, uid |-> 0],
               error |-> NoError, threw |-> FALSE]
  /\ lastEmit = <<>>
  /\ debugCalls = [id \in ExecutionIds |-> <<>>]
  /\ issued = {}
  /\ discarded = {}
  /\ sunk = {}
  /\ pending = [id \in ExecutionIds |-> <<>>]

Uids(logs) == {logs[i].event.uid : i \in 1..Len(logs)}

\* every call: the sink keeps what the call emitted
Sink == sunk' = sunk \cup Uids(lastEmit')

\* the error call reads the stream of id (flushLogStream is reached)
Drains(streams, els, id, error) ==
  els /\ ~serializeError(error).threw /\ hasStreamedLogs(streams, id)

\* logger.debug(info) under execution identifier id
Debug(id, name) ==
  /\ calls < MaxCalls
  /\ LET info == [name |-> name, uid |-> calls + 1]
         r == contextDebug(logStreams, logger, enableLogStreams, id, info,
                           now, logAttachments(now))
     IN /\ logStreams' = r.streams
        /\ lastEmit' = r.emit
        /\ lastOp' = Op("debug", id, info, NoError, FALSE)
        /\ debugCalls' = [debugCalls EXCEPT ![id] = Append(@, formatLog(info, now))]
        /\ issued' = issued \cup {[id |-> id, log |-> formatLog(info, now)]}
        /\ pending' = IF enableLogStreams
                        THEN [pending EXCEPT ![id] = Append(@, formatLog(info, now))]
                        ELSE pending
  /\ calls' = calls + 1
  /\ Sink
  /\ UNCHANGED <<logger, enableLogStreams, now, discarded>>

\* logger.error(info) under execution identifier id
Error(id, error) ==
  /\ calls < MaxCalls
  /\ LET info == [name |-> <<"e">>, uid |-> calls + 1]
         r == contextError(logStreams, logger, enableLogStreams, id, info,
                           error, now, logAttachments(now))
     IN /\ logStreams' = r.streams
        /\ lastEmit' = r.emit
        /\ lastOp' = Op("error", id, info, error, r.threw)
  /\ debugCalls' = [debugCalls EXCEPT ![id] = <<>>]
  /\ pending' = IF Drains(logStreams, enableLogStreams, id, error)
                  THEN [pending EXCEPT ![id] = <<>>]
                  ELSE pending
  /\ calls' = calls + 1
  /\ Sink
  /\ UNCHANGED <<logger, enableLogStreams, now, issued, discarded>>

\* faulty variant: info and warn also store their record in a stream
DirectBuffers(level) ==
  /\ calls < MaxCalls
  /\ LET info == [name |-> <<"a">>, uid |-> calls + 1]
     IN /\ lastEmit' = pinoLog(logger, level, formatLog(info, now),
                            logAttachments(now))
        /\ lastOp' = Op(level, "A", info, NoError, FALSE)
        /\ logStreams' = streamDebug(logStreams, "A", formatLog(info, now))
  /\ calls' = calls + 1
  /\ Sink
  /\ UNCHANGED <<logger, enableLogStreams, now,
                 debugCalls, issued, discarded, pending>>

\* logger.info(info) and logger.warn(info): SimpleLogger's, inherited
Direct(level) ==
  /\ calls < MaxCalls
  /\ LET info == [name |-> <<"a">>, uid |-> calls + 1]
     IN /\ lastEmit' = pinoLog(logger, level, formatLog(info, now),
                            logAttachments(now))
        /\ lastOp' = Op(level, "A", info, NoError, FALSE)
  /\ calls' = calls + 1
  /\ Sink
  /\ UNCHANGED <<logger, enableLogStreams, logStreams, now,
                 debugCalls, issued, discarded, pending>>

Info == Direct("info")

Warn == Direct("warn")

\* logger.createLogStream() under execution identifier id
CreateLogStream(id) ==
  /\ calls < MaxCalls
  /\ logStreams' = createLogStream(logStreams, id)
  /\ lastEmit' = <<>>
  /\ lastOp' = Op("createLogStream", id, [name |-> <<>>, uid |-> calls + 1],
                  NoError, FALSE)
  /\ calls' = calls + 1
  /\ Sink
  /\ UNCHANGED <<logger, enableLogStreams, now, debugCalls,
                 issued, discarded, pending>>

\* logger.deleteLogStream() under execution identifier id
DeleteLogStream(id) ==
  /\ calls < MaxCalls
  /\ logStreams' = deleteLogStream(logStreams, id)
  /\ lastEmit' = <<>>
  /\ lastOp' = Op("deleteLogStream", id, [name |-> <<>>, uid |-> calls + 1],
                  NoError, FALSE)
  /\ discarded' = discarded \cup Uids(debugCalls[id])
  /\ debugCalls' = [debugCalls EXCEPT ![id] = <<>>]
  /\ pending' = [pending EXCEPT ![id] = <<>>]
  /\ calls' = calls + 1
  /\ Sink
  /\ UNCHANGED <<logger, enableLogStreams, now, issued>>

\* a turn of the event loop: a stream whose readable side is below the mark
\* reads more (maybeReadMore), which releases a held write callback
Tick(id) ==
  /\ id \in DOMAIN logStreams
  /\ logStreams[id].blocked
  /\ Len(logStreams[id].rbuf) < HighWaterMark
  /\ logStreams' = [logStreams EXCEPT ![id] = TransformRead(@)]
  /\ UNCHANGED <<logger, enableLogStreams, now, calls, lastOp,
                 lastEmit, debugCalls, issued, discarded, sunk, pending>>

\* time passes between the calls
AdvanceClock ==
  /\ now < MaxTime
  /\ calls < MaxCalls
  /\ now' = now + 1
  /\ UNCHANGED <<logger, enableLogStreams, logStreams, calls,
                 lastOp, lastEmit, debugCalls, issued, discarded, sunk, pending>>

Next ==
  \/ \E id \in ExecutionIds, name \in Names : Debug(id, name)
  \/ \E id \in ExecutionIds, error \in Errors : Error(id, error)
  \/ Info
  \/ Warn
  \/ \E id \in ExecutionIds : CreateLogStream(id)
  \/ \E id \in ExecutionIds : DeleteLogStream(id)
  \/ \E id \in ExecutionIds : Tick(id)
  \/ AdvanceClock

Spec == Init /\ [][Next]_vars

(***************************************************************************)
(* Vocabulary of the properties.                                           *)
(***************************************************************************)
\* the step is a call on the logger (not a clock or event-loop step)
IsCall(op) == calls' = calls + 1 /\ lastOp'.op = op

\* the records an error call replayed: those it emitted at info level
Replayed(emit) == SelectSeq(emit, LAMBDA r : r.level = "info")

\* the Log (time and event) inside a sink record
AsLog(r) == [time |-> r.time, event |-> r.event]

\* the sink records of a call are the given Logs, each at info level, in order
IsReplayOf(emit, logs) ==
  /\ Len(emit) = Len(logs)
  /\ \A i \in 1..Len(logs) : emit[i].level = "info" /\ AsLog(emit[i]) = logs[i]

\* everything written to a stream and not yet read, in order
RECURSIVE Flatten(_)
Flatten(chunks) ==
  IF chunks = <<>> THEN <<>> ELSE Head(chunks) \o Flatten(Tail(chunks))

BufferText(streams, id) ==
  IF id \in DOMAIN streams
    THEN streams[id].rbuf \o Flatten(streams[id].wbuf)
    ELSE <<>>

(***************************************************************************)
(* C1 (flush ordering).  As claimed: with buffering enabled, isEnabled     *)
(* true and level debug or info, an error call under C that follows n >= 1 *)
(* debug calls under C (no error or deleteLogStream under C in between)    *)
(* writes exactly n + 1 records: the error record at error level, then the *)
(* n debug Logs at info level in call order; afterwards C has no buffer.   *)
(* Stated for a plain Error value (no toJSON).  The code violates it: a    *)
(* payload that contains the delimiter text, or a buffer above the         *)
(* high-water mark, breaks the replay.                                     *)
(***************************************************************************)
C1_FlushOrdering ==
  [][(/\ IsCall("error")
      /\ lastOp'.error.toJSON = "absent"
      /\ enableLogStreams
      /\ logger.level \in {"debug", "info"}
      /\ Len(debugCalls[lastOp'.id]) >= 1)
     => /\ Len(lastEmit') = Len(debugCalls[lastOp'.id]) + 1
        /\ lastEmit'[1].level = "error"
        /\ lastEmit'[1].event.uid = lastOp'.info.uid
        /\ IsReplayOf(Tail(lastEmit'), debugCalls[lastOp'.id])
        /\ lastOp'.id \notin DOMAIN logStreams']_vars

(***************************************************************************)
(* C2 (suppression).  With buffering enabled, a record of a debug call     *)
(* that was followed by deleteLogStream under its identifier, with no      *)
(* error call under it in between, never reaches the sink: not when it is  *)
(* logged, not before the delete, and not by an error call after it.       *)
(***************************************************************************)
C2_Suppression == enableLogStreams => discarded \cap sunk = {}

\* an error call under an identifier whose debug records were deleted
\* emitted its error record and nothing else
C2_Witness ==
  /\ enableLogStreams
  /\ lastOp.op = "error"
  /\ \E e \in issued : e.id = lastOp.id /\ e.log.event.uid \in discarded
  /\ Len(lastEmit) = 1
  /\ lastEmit[1].level = "error"

(***************************************************************************)
(* C3 (isolation).  Every record an error call under an identifier replays *)
(* is a Log that a debug call under that same identifier buffered, and the *)
(* error call leaves the stream of every other identifier as it was.       *)
(***************************************************************************)
C3_Isolation ==
  [][IsCall("error")
     => /\ \A i \in 1..Len(Replayed(lastEmit')) :
             [id |-> lastOp'.id, log |-> AsLog(Replayed(lastEmit')[i])] \in issued
        /\ \A other \in ExecutionIds \ {lastOp'.id} :
             /\ (other \in DOMAIN logStreams') = (other \in DOMAIN logStreams)
             /\ other \in DOMAIN logStreams
                  => logStreams'[other] = logStreams[other]]_vars

\* an error call under one identifier replayed its record while the other
\* identifier has a pending record, which stayed pending
C3_Witness ==
  /\ lastOp.op = "error"
  /\ Len(Replayed(lastEmit)) >= 1
  /\ \E other \in ExecutionIds \ {lastOp.id} :
       /\ hasStreamedLogs(logStreams, other)
       /\ \E e \in issued : e.id = other /\ e.log.event.uid \notin sunk

(***************************************************************************)
(* C4 (error always surfaces).  As claimed, for an enabled logger: every   *)
(* error call writes exactly one error-level record, and writes it first.  *)
(* The code violates it: when the error's toJSON throws, serializeError    *)
(* raises before anything is written (see C6).                             *)
(***************************************************************************)
C4_ErrorAlwaysSurfaces ==
  (lastOp.op = "error" /\ logger.level # "silent")
    => /\ Len(lastEmit) >= 1
       /\ lastEmit[1].level = "error"
       /\ Cardinality({i \in 1..Len(lastEmit) : lastEmit[i].level = "error"}) = 1

(***************************************************************************)
(* C5 (a corrupt segment is skipped).  As claimed: when an error call      *)
(* drains a buffer in which a segment fails to parse, the call does not    *)
(* raise, the other segments are replayed at info level in order, and the  *)
(* buffer is removed.  The code violates it: JSON.parse throws inside the  *)
(* forEach, the error call raises, the later segments are never replayed   *)
(* and deleteLogStream is not reached.                                     *)
(***************************************************************************)
Segments(streams, id) == split(flushLogStream(streams, id).data, LOG_SEP)

RECURSIVE ParsedLogs(_)
ParsedLogs(segs) ==
  IF segs = <<>> THEN <<>>
  ELSE (IF JSONparse(Head(segs)).ok THEN <<JSONparse(Head(segs)).value>>
        ELSE <<>>) \o ParsedLogs(Tail(segs))

C5_CorruptSegmentSkipped ==
  [][(/\ IsCall("error")
      /\ lastOp'.error.toJSON # "throws"
      /\ enableLogStreams
      /\ logger.level \in {"debug", "info"}
      /\ hasStreamedLogs(logStreams, lastOp'.id)
      /\ \E i \in 1..Len(Segments(logStreams, lastOp'.id)) :
           ~JSONparse(Segments(logStreams, lastOp'.id)[i]).ok)
     => /\ ~lastOp'.threw
        /\ Len(lastEmit') >= 1
        /\ IsReplayOf(Tail(lastEmit'),
                      ParsedLogs(Segments(logStreams, lastOp'.id)))
        /\ lastOp'.id \notin DOMAIN logStreams']_vars

(***************************************************************************)
(* C6 (serialization degradation).  As claimed, for an enabled logger:     *)
(* whatever the error's toJSON does, the error call writes its error       *)
(* record, and when toJSON throws or returns a non-mapping the serialized  *)
(* error has the base fields type and message only.  The code violates     *)
(* it: a throwing toJSON propagates out of serializeError before anything  *)
(* is written, and a string returned by toJSON is spread into index keys.  *)
(***************************************************************************)
C6_SerializationDegradation ==
  (lastOp.op = "error" /\ logger.level # "silent")
    => /\ Len(lastEmit) >= 1
       /\ lastEmit[1].level = "error"
       /\ lastEmit[1].event.uid = lastOp.info.uid
       /\ lastOp.error.toJSON \in {"throws", "string"}
            => lastEmit[1].event.error = BaseFields(lastOp.error)

(***************************************************************************)
(* C7 (unbuffered mode).  With enableLogStreams = false, a debug call      *)
(* creates no buffer and writes its record at debug level exactly when the *)
(* level gate passes it (the logger is enabled and its level is debug),    *)
(* and an error call leaves the buffers alone, replays nothing and writes  *)
(* nothing but its own error record.                                       *)
(***************************************************************************)
C7_UnbufferedMode ==
  [][(~enableLogStreams /\ calls' = calls + 1)
     => /\ lastOp'.op = "debug"
             => /\ logStreams' = logStreams
                /\ lastEmit' =
                     IF logger.level = "debug"
                       THEN <<[level |-> "debug", att |-> logAttachments(now),
                               time |-> now, event |-> lastOp'.info]>>
                       ELSE <<>>
        /\ lastOp'.op = "error"
             => /\ logStreams' = logStreams
                /\ Replayed(lastEmit') = <<>>
                /\ Len(lastEmit') <= 1
                /\ \A i \in 1..Len(lastEmit') :
                     /\ lastEmit'[i].level = "error"
                     /\ lastEmit'[i].event.uid = lastOp'.info.uid]_vars

\* unbuffered: a buffer was created explicitly, a debug call was written
\* directly, and the error call then wrote its error record only
C7_Witness ==
  /\ ~enableLogStreams
  /\ lastOp.op = "error"
  /\ Len(lastEmit) = 1
  /\ DOMAIN logStreams # {}
  /\ \E e \in issued : e.log.event.uid \in sunk

(***************************************************************************)
(* C8 (replay surfaces above the debug threshold).  As claimed: with       *)
(* buffering enabled and the logger enabled at level info, warn or error,  *)
(* the records buffered under an identifier reach the sink when an error   *)
(* call under it flushes them.  Stated for buffers whose segments all      *)
(* parse.  The code violates it: the replay goes through logger.info, and  *)
(* the level gate drops info records when the level is warn or error.      *)
(***************************************************************************)
C8_ReplaySurfaces ==
  [][(/\ IsCall("error")
      /\ lastOp'.error.toJSON # "throws"
      /\ enableLogStreams
      /\ logger.level \in {"info", "warn", "error"}
      /\ hasStreamedLogs(logStreams, lastOp'.id)
      /\ \A i \in 1..Len(Segments(logStreams, lastOp'.id)) :
           JSONparse(Segments(logStreams, lastOp'.id)[i]).ok)
     => \A i \in 1..Len(Segments(logStreams, lastOp'.id)) :
          \E j \in 1..Len(lastEmit') :
            /\ lastEmit'[j].level = "info"
            /\ AsLog(lastEmit'[j]) =
                 JSONparse(Segments(logStreams, lastOp'.id)[i]).value]_vars

SegmentCount(text) == IF text = <<>> THEN 0 ELSE Len(split(text, LOG_SEP))

C10_BufferRoundTrip ==
  [][(IsCall("debug") /\ enableLogStreams)
     => LET segs == split(BufferText(logStreams', lastOp'.id), LOG_SEP)
        IN /\ Len(segs) = SegmentCount(BufferText(logStreams, lastOp'.id)) + 1
           /\ JSONparse(segs[Len(segs)]) =
                [ok |-> TRUE, value |-> formatLog(lastOp'.info, now)]]_vars

(***************************************************************************)
(* C11 (pending check).  As claimed, with buffering enabled: for every     *)
(* identifier, hasStreamedLogs is true exactly when a stream exists for it *)
(* and at least one debug record was written to it since it was last read  *)
(* by an error call or deleted; so it is false after construction, after   *)
(* createLogStream alone, after deleteLogStream and after a drain.  The    *)
(* code violates it: above the high-water mark a drain leaves queued       *)
(* chunks behind (see C16), and they become readable on the next turn of   *)
(* the event loop with no debug call made since the drain.                 *)
(***************************************************************************)
C11_PendingCheck ==
  enableLogStreams
    => \A id \in ExecutionIds :
         hasStreamedLogs(logStreams, id)
           <=> (id \in DOMAIN logStreams /\ pending[id] # <<>>)

(***************************************************************************)
(* C12 (createLogStream is idempotent).  A createLogStream call under an   *)
(* identifier that already has a stream changes nothing: the stream, what  *)
(* is pending in it and its order stay as they were; under an identifier   *)
(* without a stream it adds one empty stream; it writes nothing to the     *)
(* sink and leaves the other identifiers alone.  The map holds at most one *)
(* stream per identifier: its keys are execution identifiers.              *)
(***************************************************************************)
C12_CreateIdempotent ==
  [][IsCall("createLogStream")
     => /\ lastOp'.id \in DOMAIN logStreams => logStreams' = logStreams
        /\ lastOp'.id \notin DOMAIN logStreams
             => /\ DOMAIN logStreams' = DOMAIN logStreams \cup {lastOp'.id}
                /\ logStreams'[lastOp'.id] = NewPassThrough
                /\ \A other \in DOMAIN logStreams :
                     logStreams'[other] = logStreams[other]
        /\ BufferText(logStreams', lastOp'.id) = BufferText(logStreams, lastOp'.id)
        /\ DOMAIN logStreams' \subseteq ExecutionIds
        /\ pending' = pending
        /\ lastEmit' = <<>>]_vars

\* createLogStream was called under an identifier with a pending debug
\* record, and the record is still pending
C12_Witness ==
  /\ lastOp.op = "createLogStream"
  /\ hasStreamedLogs(logStreams, lastOp.id)
  /\ pending[lastOp.id] # <<>>

(***************************************************************************)
(* C13 (deleteLogStream).  A deleteLogStream call under an identifier      *)
(* removes that identifier's stream when there is one and changes nothing  *)
(* when there is none; either way it writes nothing to the sink and every  *)
(* other identifier keeps its stream, with the same content in the same    *)
(* order.                                                                  *)
(***************************************************************************)
C13_DeleteFrame ==
  [][IsCall("deleteLogStream")
     => /\ lastOp'.id \notin DOMAIN logStreams'
        /\ lastOp'.id \notin DOMAIN logStreams => logStreams' = logStreams
        /\ \A other \in ExecutionIds \ {lastOp'.id} :
             /\ (other \in DOMAIN logStreams') = (other \in DOMAIN logStreams)
             /\ other \in DOMAIN logStreams
                  => logStreams'[other] = logStreams[other]
        /\ lastEmit' = <<>>
        /\ sunk' = sunk]_vars

\* deleteLogStream removed a stream with a pending record while the other
\* identifier's pending record stayed
C13_Witness ==
  /\ lastOp.op = "deleteLogStream"
  /\ lastOp.id \notin DOMAIN logStreams
  /\ \E e \in issued : e.id = lastOp.id /\ e.log.event.uid \in discarded
  /\ \E other \in ExecutionIds \ {lastOp.id} : hasStreamedLogs(logStreams, other)

(***************************************************************************)
(* C14 (level gate).  A record that a call sends directly to the sink (an  *)
(* info or warn call, the error record of an error call whose error was    *)
(* serialized, a debug call in unbuffered mode) is written if and only if  *)
(* isEnabled is not false and the record's level is not below the          *)
(* configured level in debug < info < warn < error, where an omitted       *)
(* isEnabled counts as true and an omitted level as info: with both        *)
(* omitted, debug is suppressed and info, warn and error are written.      *)
(***************************************************************************)
\* the spec's shouldEmit, on the options as the caller passed them
ShouldEmit(recordLevel, params) ==
  /\ params.isEnabled \in {"true", "undefined"}
  /\ LevelRank(recordLevel) >=
       LevelRank(IF params.level = "undefined" THEN "info" ELSE params.level)

\* the call's own record is among the records the call wrote, at its level
OwnRecordWritten(emit, op) ==
  \E i \in 1..Len(emit) :
    emit[i].event.uid = op.info.uid /\ emit[i].level = op.op

DefaultSetup == [level |-> "undefined", isEnabled |-> "undefined"]

C14_LevelGate ==
  [][(/\ calls' = calls + 1
      /\ \/ lastOp'.op \in {"info", "warn"}
         \/ lastOp'.op = "error" /\ lastOp'.error.toJSON # "throws"
         \/ lastOp'.op = "debug" /\ ~enableLogStreams)
     => /\ \A params \in LoggerSetups :
             logger = setup(params)
               => (OwnRecordWritten(lastEmit', lastOp')
                     <=> ShouldEmit(lastOp'.op, params))
        /\ logger = setup(DefaultSetup)
             => (OwnRecordWritten(lastEmit', lastOp') <=> lastOp'.op # "debug")]_vars

\* with the options omitted and buffering off, a debug call wrote nothing
\* after an earlier call had written its record
C14_Witness ==
  /\ logger = setup(DefaultSetup)
  /\ ~enableLogStreams
  /\ lastOp.op = "debug"
  /\ lastEmit = <<>>
  /\ sunk # {}

(***************************************************************************)
(* C15 (error record shape).  In the error record an error call writes,    *)
(* the event keeps the caller's other fields (name, uid) and carries, in   *)
(* place of the raw error value, the serialized error: type is the error's *)
(* name and message is the error's message, and when toJSON returns a      *)
(* mapping every field of the mapping is present with the mapping's value, *)
(* a base field of the same name included.                                 *)
(***************************************************************************)
C15_ErrorRecordShape ==
  (lastOp.op = "error" /\ Len(lastEmit) >= 1 /\ lastEmit[1].level = "error")
    => LET event == lastEmit[1].event
           mapping == ToJSONSpread(lastOp.error)
           overrides == IF lastOp.error.toJSON = "object"
                          THEN DOMAIN mapping ELSE {}
       IN /\ DOMAIN event = {"name", "uid", "error"}
          /\ event.name = lastOp.info.name
          /\ event.uid = lastOp.info.uid
          /\ event.error # lastOp.error
          /\ {"type", "message"} \subseteq DOMAIN event.error
          /\ "type" \notin overrides => event.error["type"] = lastOp.error.name
          /\ "message" \notin overrides
               => event.error["message"] = lastOp.error.message
          /\ \A k \in overrides :
               k \in DOMAIN event.error /\ event.error[k] = mapping[k]
          /\ lastOp.error.toJSON \in {"absent", "object"}
               => DOMAIN event.error = {"type", "message"} \cup overrides

\* an error record was written for an error whose toJSON returns a mapping
\* that adds a field and overrides message
C15_Witness ==
  /\ lastOp.op = "error"
  /\ lastOp.error.toJSON = "object"
  /\ Len(lastEmit) >= 1
  /\ lastEmit[1].level = "error"
  /\ lastEmit[1].event.error["message"] = "Overridden"
  /\ lastEmit[1].event.error["prop"] = "Custom"
  /\ lastEmit[1].event.error["type"] = "Error"

(***************************************************************************)
(* C16 (the drain is complete).  As claimed: an error call that reads an   *)
(* identifier's stream replays every record written to it since it was     *)
(* last read or deleted, in order and with none lost, whatever their       *)
(* number and size.  Stated for an enabled logger at level debug or info   *)
(* and for payloads that do not contain the delimiter.  The code violates  *)
(* it: once the readable side of the PassThrough has reached the           *)
(* high-water mark, later writes queue on the writable side, and read()    *)
(* returns the readable side after moving queued chunks only until the     *)
(* mark is reached again.                                                  *)
(***************************************************************************)
NoDelimiterIn(logs) ==
  \A i \in 1..Len(logs) : logs[i].event.name # <<LOG_SEP>>

C16_DrainComplete ==
  [][(/\ IsCall("error")
      /\ Drains(logStreams, enableLogStreams, lastOp'.id, lastOp'.error)
      /\ logger.level \in {"debug", "info"}
      /\ NoDelimiterIn(pending[lastOp'.id]))
     => IsReplayOf(Replayed(lastEmit'), pending[lastOp'.id])]_vars

(***************************************************************************)
(* C17 (buffer lifecycle).  In every step, an identifier gains a stream    *)
(* only by a createLogStream call or a buffered debug call under it, and   *)
(* loses its stream only by a deleteLogStream call under it or by an error *)
(* call under it that found pending records and replayed them.  No other   *)
(* step (info, warn, an unbuffered debug, a call under another identifier, *)
(* an error call that finds nothing pending, the passing of time) adds or  *)
(* removes it, so a stream that is never flushed or deleted stays.         *)
(***************************************************************************)
C17_BufferLifecycle ==
  [][\A id \in ExecutionIds :
       /\ (id \notin DOMAIN logStreams /\ id \in DOMAIN logStreams')
            => /\ calls' = calls + 1
               /\ lastOp'.id = id
               /\ \/ lastOp'.op = "createLogStream"
                  \/ lastOp'.op = "debug" /\ enableLogStreams
       /\ (id \in DOMAIN logStreams /\ id \notin DOMAIN logStreams')
            => /\ calls' = calls + 1
               /\ lastOp'.id = id
               /\ \/ lastOp'.op = "deleteLogStream"
                  \/ /\ lastOp'.op = "error"
                     /\ Drains(logStreams, enableLogStreams, id, lastOp'.error)
                     /\ ~lastOp'.threw]_vars

\* with buffering enabled, an error call under an identifier whose stream
\* had nothing pending wrote its error record and left the stream in place,
\* after an info call that left it in place too
C17_Witness ==
  /\ enableLogStreams
  /\ lastOp.op = "error"
  /\ ~lastOp.threw
  /\ Len(lastEmit) = 1
  /\ lastOp.id \in DOMAIN logStreams
  /\ logStreams[lastOp.id] = NewPassThrough
  /\ Cardinality(sunk) = 2

(***************************************************************************)
(* C18 (replay at most once).  As claimed, with buffering enabled: an      *)
(* error call replays no record that the sink has already received, and    *)
(* none twice; an error call under an identifier with nothing pending      *)
(* (never buffered, already read by an earlier error call, or deleted)     *)
(* writes its error record only; and once an identifier's stream has been  *)
(* read or deleted nothing of it is left, so that the debug calls that     *)
(* follow start from an empty buffer.  The code violates the last two      *)
(* parts: above the high-water mark the read of an error call leaves       *)
(* queued chunks in the stream (see C16), which stays in the map when the  *)
(* replay raises; the next debug call appends to them and the next error   *)
(* call replays them.                                                      *)
(***************************************************************************)
C18_ReplayAtMostOnce ==
  /\ [](enableLogStreams
          => \A id \in ExecutionIds :
               pending[id] = <<>> => BufferText(logStreams, id) = <<>>)
  /\ [][(IsCall("error") /\ enableLogStreams)
        => /\ \A i \in 1..Len(Replayed(lastEmit')) :
                /\ Replayed(lastEmit')[i].event.uid \notin sunk
                /\ \A j \in 1..Len(Replayed(lastEmit')) :
                     Replayed(lastEmit')[i].event.uid
                       = Replayed(lastEmit')[j].event.uid => i = j
           /\ pending[lastOp'.id] = <<>>
                => /\ Len(lastEmit') <= 1
                   /\ Replayed(lastEmit') = <<>>]_vars

(***************************************************************************)
(* C19 (shared identifier).  The logger sees of its caller only the        *)
(* execution identifier, so two flows that run under one identifier are    *)
(* one sequence of calls under it; here each flow logs its own event name. *)
(* As claimed: when the records of two flows are pending under an          *)
(* identifier, an error call under it replays the records of both, in the  *)
(* order of the debug calls, and removes the shared stream.  Stated for an *)
(* enabled logger at level debug or info and for payloads that do not      *)
(* contain the delimiter.  The code violates it: the records share one     *)
(* PassThrough, and past its high-water mark the drain is incomplete (see  *)
(* C16).                                                                   *)
(***************************************************************************)
TwoFlows(logs) ==
  \E i, j \in 1..Len(logs) : logs[i].event.name # logs[j].event.name

C19_SharedIdentifier ==
  [][(/\ IsCall("error")
      /\ Drains(logStreams, enableLogStreams, lastOp'.id, lastOp'.error)
      /\ logger.level \in {"debug", "info"}
      /\ TwoFlows(pending[lastOp'.id])
      /\ NoDelimiterIn(pending[lastOp'.id]))
     => /\ IsReplayOf(Replayed(lastEmit'), pending[lastOp'.id])
        /\ \A i \in 1..Len(Replayed(lastEmit')) :
             \A j \in 1..Len(Replayed(lastEmit')) :
               i < j => Replayed(lastEmit')[i].event.uid
                          < Replayed(lastEmit')[j].event.uid
        /\ lastOp'.id \notin DOMAIN logStreams']_vars

(***************************************************************************)
(* C20 (info and warn bypass the buffers).  An info or warn call writes    *)
(* its record at once, at its own level, exactly when the level gate       *)
(* passes it, and leaves every stream as it was.  The text of a stream     *)
(* changes only by a call under its identifier: a debug call, which adds   *)
(* its own serialized record (after a separator, if any), or an error or   *)
(* deleteLogStream call, which takes text away; so a stream only ever      *)
(* holds records of debug calls.  And when an info or warn record is       *)
(* written, the debug records still pending have not reached the sink: a   *)
(* replay of them comes after it.                                          *)
(***************************************************************************)
C20_InfoWarnBypass ==
  [][/\ (calls' = calls + 1 /\ lastOp'.op \in {"info", "warn"})
          => /\ logStreams' = logStreams
             /\ pending' = pending
             /\ lastEmit' =
                  IF LevelRank(lastOp'.op) >= LevelRank(logger.level)
                    THEN <<[level |-> lastOp'.op, att |-> logAttachments(now),
                            time |-> now, event |-> lastOp'.info]>>
                    ELSE <<>>
             /\ sunk' = sunk \cup Uids(lastEmit')
             /\ \A id \in ExecutionIds :
                  Uids(pending[id]) \cap sunk' = {}
     /\ logStreams' # logStreams
          => \A id \in ExecutionIds :
               BufferText(logStreams', id) # BufferText(logStreams, id)
                 => /\ calls' = calls + 1
                    /\ lastOp'.id = id
                    /\ lastOp'.op \in {"debug", "error", "deleteLogStream"}
                    /\ lastOp'.op = "debug"
                         => \E sep \in {<<>>, <<LOG_SEP>>} :
                              BufferText(logStreams', id) =
                                BufferText(logStreams, id) \o sep
                                  \o JSONstringify(formatLog(lastOp'.info, now))
                    /\ lastOp'.op # "debug"
                         => Len(BufferText(logStreams', id))
                              < Len(BufferText(logStreams, id))]_vars

\* an info or warn call wrote its record while a debug record made before
\* it is still pending in its stream and has not reached the sink
C20_Witness ==
  /\ lastOp.op \in {"info", "warn"}
  /\ Len(lastEmit) = 1
  /\ lastEmit[1].event.uid = lastOp.info.uid
  /\ \E id \in ExecutionIds :
       /\ hasStreamedLogs(logStreams, id)
       /\ pending[id] # <<>>
       /\ Uids(pending[id]) \cap sunk = {}

(***************************************************************************)
(* C21 (buffering is independent of the level gate).  As claimed, with     *)
(* buffering enabled and for every isEnabled and level: a debug call       *)
(* writes nothing to the sink and appends exactly its own record to its    *)
(* identifier's stream; an error call under an identifier with pending     *)
(* records drains the stream and removes it; and what either call does to  *)
(* the streams is the same for every configuration of the logger, a        *)
(* disabled one included.  Stated for a plain Error value (no toJSON).     *)
(* The code violates the second part, for every configuration alike: when  *)
(* a segment fails to parse the error call raises before deleteLogStream   *)
(* (see C5, C10, C16) and the stream stays in the map.                     *)
(***************************************************************************)
C21_BufferingIndependentOfGate ==
  [][(calls' = calls + 1 /\ enableLogStreams)
     => /\ lastOp'.op = "debug"
             => /\ lastEmit' = <<>>
                /\ pending'[lastOp'.id] =
                     Append(pending[lastOp'.id], formatLog(lastOp'.info, now))
                /\ \E sep \in {<<>>, <<LOG_SEP>>} :
                     BufferText(logStreams', lastOp'.id) =
                       BufferText(logStreams, lastOp'.id) \o sep
                         \o JSONstringify(formatLog(lastOp'.info, now))
                /\ \A params \in LoggerSetups :
                     contextDebug(logStreams, setup(params), TRUE, lastOp'.id,
                                  lastOp'.info, now, logAttachments(now)).streams
                       = logStreams'
        /\ (/\ lastOp'.op = "error"
            /\ lastOp'.error.toJSON = "absent"
            /\ pending[lastOp'.id] # <<>>)
             => /\ pending'[lastOp'.id] = <<>>
                /\ lastOp'.id \notin DOMAIN logStreams'
                /\ \A params \in LoggerSetups :
                     contextError(logStreams, setup(params), TRUE, lastOp'.id,
                                  lastOp'.info, lastOp'.error, now,
                                  logAttachments(now)).streams
                       = logStreams']_vars

====
